---- MODULE Spec2Model ----
(***************************************************************************)
(* perccli_status.py: one run of the RAID health check.                    *)
(*                                                                         *)
(* The external perccli binary is the environment: every invocation gets a *)
(* reply [returncode, text] chosen nondeterministically from a bounded set *)
(* of replies.  A text is either not JSON or a JSON document; a JSON       *)
(* object is a function from string keys to values, a JSON list a          *)
(* sequence.  An object the code iterates over (dict.items()) is a         *)
(* sequence of [k, v] pairs so that the iteration order is part of it;     *)
(* its keys are sequences of one-character strings because the code        *)
(* inspects them (startswith, a regular expression, split).                *)
(*                                                                         *)
(* A Python call is an operator that returns [exc, ...]: exc = "none" and  *)
(* the value, or the name of the exception that leaves the call.           *)
(***************************************************************************)
EXTENDS Integers, Sequences, FiniteSets, TLC

VARIABLES
    pc,            \* position of main: start, ctrl, vd, pd, report, done, crashed
    args,          \* parse_arguments' result: [nagios, perccli_path]
    manager,       \* manager_factory's result: [version, perccli_path]
    calls,         \* every subprocess invocation so far: [cmd, returncode, json]
    stdout,        \* the reply to the last subprocess invocation
    ctrl_ret, ctrl_info,
    virtual_ret, virtual_info,
    pdisk_ret, pdisk_info,
    exit_code,     \* main's return value
    output,        \* what main printed
    exc,           \* the exception that ended the run, "none" otherwise
    returned       \* history: the three record lists as the manager returned them

vars == << pc, args, manager, calls, stdout, ctrl_ret, ctrl_info, virtual_ret,
           virtual_info, pdisk_ret, pdisk_info, exit_code, output, exc, returned >>

(***************************************************************************)
(* Bounds of the model.                                                    *)
(***************************************************************************)
\* controllers in a document a manager method is called on alone
MaxCtl == 2
\* backup units, and disks, in such a document
MaxItems == 2
\* backup units, and disks, in a document of a whole run
RunItems == 1
\* records in a list a stubbed manager method returns
StubRecords == 1
\* digits of the major version token of the version banner
MaxVerDigits == 2

(***************************************************************************)
(* class ExitCode(IntEnum)                                                 *)
(***************************************************************************)
OK == 0
WARNING == 1
CRITICAL == 2
UNKNOWN == 3

ExitCode == {OK, WARNING, CRITICAL, UNKNOWN}

ExitCodeName(code) ==
    CASE code = OK -> "OK"
      [] code = WARNING -> "WARNING"
      [] code = CRITICAL -> "CRITICAL"
      [] code = UNKNOWN -> "UNKNOWN"

(***************************************************************************)
(* Python built-ins the code uses.                                         *)
(***************************************************************************)
\* d[k] raises KeyError unless k in d
Has(d, k) == k \in DOMAIN d

\* every key of the path p is present, walking down from d
RECURSIVE HasPath(_, _)
HasPath(d, p) ==
    IF p = <<>> THEN TRUE
    ELSE Has(d, Head(p)) /\ HasPath(d[Head(p)], Tail(p))

RECURSIVE GetPath(_, _)
GetPath(d, p) == IF p = <<>> THEN d ELSE GetPath(d[Head(p)], Tail(p))

\* "".join(chars): a sequence of one-character strings as one string
RECURSIVE Str(_)
Str(chars) == IF chars = <<>> THEN "" ELSE Head(chars) \o Str(Tail(chars))

\* sep.join(items)
RECURSIVE Join(_, _)
Join(sep, items) ==
    IF items = <<>> THEN ""
    ELSE IF Len(items) = 1 THEN items[1]
    ELSE items[1] \o sep \o Join(sep, Tail(items))

Digits == {"0", "1", "2", "3", "4", "5", "6", "7", "8", "9"}

DigitValue(c) ==
    CASE c = "0" -> 0 [] c = "1" -> 1 [] c = "2" -> 2 [] c = "3" -> 3
      [] c = "4" -> 4 [] c = "5" -> 5 [] c = "6" -> 6 [] c = "7" -> 7
      [] c = "8" -> 8 [] c = "9" -> 9

\* int(s) of a string of decimal digits
RECURSIVE ParseInt(_)
ParseInt(chars) ==
    IF chars = <<>> THEN 0
    ELSE 10 * ParseInt(SubSeq(chars, 1, Len(chars) - 1)) + DigitValue(chars[Len(chars)])

\* str(n) of a natural number, as characters
RECURSIVE DecChars(_)
DecChars(n) ==
    IF n < 10 THEN << ToString(n) >>
    ELSE DecChars(n \div 10) \o << ToString(n % 10) >>

Max(a, b) == IF a >= b THEN a ELSE b

\* the sequences over S of length 0..n
SeqUpTo(S, n) == UNION {[1..k -> S] : k \in 0..n}

(***************************************************************************)
(* json_command: subprocess.check_output raises CalledProcessError on a    *)
(* non-zero return code whatever was printed, json.loads raises            *)
(* JSONDecodeError on a text that is not JSON; both become                 *)
(* JsonCommandError.                                                       *)
(***************************************************************************)
NotJson == [json |-> FALSE]
Json(doc) == [json |-> TRUE, doc |-> doc]

\* json_command as it would be with a call that does not look at the return
\* code: whatever JSON was printed is loaded
JsonCommandAnyReturnCode(reply) ==
    IF ~reply.text.json THEN [exc |-> "JsonCommandError"]
    ELSE [exc |-> "none", val |-> reply.text.doc]

json_command(reply) ==
    IF reply.returncode # 0 THEN [exc |-> "JsonCommandError"]
    ELSE IF ~reply.text.json THEN [exc |-> "JsonCommandError"]
    ELSE [exc |-> "none", val |-> reply.text.doc]

\* the status marker a printed document carries for its first controller,
\* "(none)" when the text is not JSON or has no marker there
NoMarker == "(none)"
EmbeddedMarker(text) ==
    IF ~text.json THEN NoMarker
    ELSE IF ~Has(text.doc, "Controllers") THEN NoMarker
    ELSE IF text.doc["Controllers"] = <<>> THEN NoMarker
    ELSE IF ~HasPath(text.doc["Controllers"][1], <<"Command Status", "Status">>) THEN NoMarker
    ELSE text.doc["Controllers"][1]["Command Status"]["Status"]

\* what the invocation log keeps of a reply
Logged(cmd, reply) ==
    [cmd |-> cmd, returncode |-> reply.returncode, json |-> reply.text.json,
     marker |-> EmbeddedMarker(reply.text)]

\* a manager method's result
Return(ret, info) == [exc |-> "none", ret |-> ret, info |-> info]
Raise(name) == [exc |-> name, ret |-> -1, info |-> <<>>]


(***************************************************************************)
(* find_perccli, parse_version, manager_factory                            *)
(***************************************************************************)
DefaultPaths == << "/opt/MegaRAID/perccli/perccli64", "/opt/MegaRAID/perccli2/perccli2" >>

\* shutil.which over the default paths; installed is the set of those present
find_perccli(installed) ==
    IF DefaultPaths[1] \in installed THEN [exc |-> "none", val |-> DefaultPaths[1]]
    ELSE IF DefaultPaths[2] \in installed THEN [exc |-> "none", val |-> DefaultPaths[2]]
    ELSE [exc |-> "RuntimeError"]

\* The output of "perccli v": banner says whether the text around the major
\* version token matches "PercCli.*SAS Customization Utility Ver " before it
\* and "\.\d+\.\d+\.\d+" after it; ver is the run of digits at the token's place.
VersionReplies ==
    {[returncode |-> rc, text |-> [banner |-> b, ver |-> v]] :
        rc \in {0, 1}, b \in BOOLEAN, v \in SeqUpTo({"0", "7", "8", "9"}, MaxVerDigits)}

parse_version(reply) ==
    IF reply.returncode # 0 THEN [exc |-> "CalledProcessError"]
    ELSE IF reply.text.banner /\ reply.text.ver # <<>>
         THEN [exc |-> "none", val |-> ParseInt(reply.text.ver)]
    ELSE [exc |-> "RuntimeError"]

NoManager == [version |-> 0, perccli_path |-> ""]

\* a selection with version 8's manager as the default of every other version
ManagerClassWithDefault(perccli_version) ==
    IF perccli_version = 7 THEN 7 ELSE 8

\* which manager class a parsed major version selects: 0 is none
manager_class(perccli_version) ==
    IF perccli_version = 7 THEN 7
    ELSE IF perccli_version = 8 THEN 8
    ELSE 0

\* [exc, manager, invoked, perccli_path]: invoked says whether "perccli v" was run
manager_factory(perccli_path, installed, reply) ==
    LET found == IF perccli_path = "" THEN find_perccli(installed)
                 ELSE [exc |-> "none", val |-> perccli_path]
    IN  IF found.exc # "none"
        THEN [exc |-> found.exc, manager |-> NoManager, invoked |-> FALSE,
              perccli_path |-> ""]
        ELSE LET parsed == parse_version(reply) IN
             IF parsed.exc # "none"
             THEN [exc |-> parsed.exc, manager |-> NoManager, invoked |-> TRUE,
                   perccli_path |-> found.val]
             ELSE IF manager_class(parsed.val) = 0
             THEN [exc |-> "RuntimeError", manager |-> NoManager, invoked |-> TRUE,
                   perccli_path |-> found.val]
             ELSE [exc |-> "none", invoked |-> TRUE, perccli_path |-> found.val,
                   manager |-> [version |-> manager_class(parsed.val),
                                perccli_path |-> found.val]]

(***************************************************************************)
(* Documents of "/call show all j".                                        *)
(***************************************************************************)
CtlStatuses == {"Optimal", "Degraded"}
BbuStatuses == {"Optimal", "Failed"}

\* a key of an object, removed
DropKey(d, k) == [f \in DOMAIN d \ {k} |-> d[f]]

\* the key at the end of path p, removed; the path's keys are all present
RECURSIVE DropPath(_, _)
DropPath(d, p) ==
    IF Len(p) = 1 THEN DropKey(d, Head(p))
    ELSE [f \in DOMAIN d |-> IF f = Head(p) THEN DropPath(d[f], Tail(p)) ELSE d[f]]

CommandStatus(n, marker) == [Controller |-> n, Status |-> marker]

Ctl7Block(n, status, bbus) ==
    ("Command Status" :> CommandStatus(n, "Success")) @@
    ("Response Data" :>
        (("Status" :> ("Controller Status" :> status)) @@
         ("Basics" :> [Model |-> "PERC H730P Adapter"]) @@
         ("HwCfg" :> (("On Board Memory Size" :> "2048MB") @@
                      ("Ctrl temperature(Degree Celsius)" :> "51"))) @@
         ("Version" :> ("Firmware Version" :> "25.5.9.0001")) @@
         ("BBU_Info" :> bbus)))

Ctl8Block(n, status, packs) ==
    ("Command Status" :> CommandStatus(n, "Success")) @@
    ("Response Data" :>
        (("Status" :> ("Controller Status" :> status)) @@
         ("Basics" :> ("Product Name" :> "PERC H965i Front")) @@
         ("HwCfg" :> (("DDR Memory Size(MiB)" :> "8192") @@
                      ("Chip temperature(C)" :> "60"))) @@
         ("Version" :> ("Firmware Version" :> "8.4.0.0.18-29")) @@
         ("Energy Pack Info" :> packs)))

\* the keys check_controllers reads in a controller block, as paths
Ctl7Paths ==
    { <<"Response Data">>, <<"Command Status">>, <<"Command Status", "Controller">>,
      <<"Response Data", "Status">>, <<"Response Data", "Status", "Controller Status">>,
      <<"Response Data", "Basics", "Model">>,
      <<"Response Data", "HwCfg", "On Board Memory Size">>,
      <<"Response Data", "HwCfg", "Ctrl temperature(Degree Celsius)">>,
      <<"Response Data", "Version", "Firmware Version">>,
      <<"Response Data", "BBU_Info">> }

Ctl8Paths ==
    { <<"Response Data">>, <<"Command Status">>, <<"Command Status", "Controller">>,
      <<"Response Data", "Status">>, <<"Response Data", "Status", "Controller Status">>,
      <<"Response Data", "Basics", "Product Name">>,
      <<"Response Data", "HwCfg", "DDR Memory Size(MiB)">>,
      <<"Response Data", "HwCfg", "Chip temperature(C)">>,
      <<"Response Data", "Version", "Firmware Version">>,
      <<"Response Data", "Energy Pack Info">> }

CtlBlock(version, n, status, bbus) ==
    IF version = 7 THEN Ctl7Block(n, status, bbus) ELSE Ctl8Block(n, status, bbus)


\* The layouts of a document: for each of at most ctl controllers the sequence
\* of its items' statuses, with at most items items in the whole document.
Layouts(S, ctl, items) ==
    LET lay[k \in 0..ctl, t \in 0..items] ==
            IF k = 0 THEN { <<>> }
            ELSE UNION {{<< first >> \o rest : rest \in lay[k - 1, t - Len(first)]} :
                            first \in SeqUpTo(S, t)}
    IN  UNION {lay[k, items] : k \in 0..ctl}

\* a layout l with a choice c of one element of C per controller: block i of
\* a document is made of i - 1, l[i] and c[i]
ChosenLayouts(S, C, ctl, items) ==
    UNION {{l} \X [1..Len(l) -> C] : l \in Layouts(S, ctl, items)}

\* the block lists of lists with one block replaced by a block that lacks a
\* key: bad[n] are such blocks of controller n
OneBadBlockLists(lists, bad) ==
    UNION {{[l EXCEPT ![i] = b] : b \in bad[i - 1]} :
              <<l, i>> \in UNION {{l} \X (1..Len(l)) : l \in lists}}

\* The controller blocks with one key missing.
BadCtlBlocks(version, n) ==
    {DropPath(CtlBlock(version, n, s, <<>>), p) : s \in CtlStatuses, p \in IF version = 7 THEN Ctl7Paths ELSE Ctl8Paths}
    \cup {CtlBlock(version, n, s, << [Type |-> "BBU"] >>) : s \in CtlStatuses}

WellFormedControllerDocs(version, ctl, items) ==
    LET good(n, bbus, s) ==
            CtlBlock(version, n, s,
                     [i \in 1..Len(bbus) |-> ((IF version = 7 THEN "State" ELSE "Status") :> bbus[i])
                            @@ [Type |-> "BBU"]])
    IN  {[Controllers |-> [i \in 1..Len(lc[1]) |-> good(i - 1, lc[1][i], lc[2][i])]] :
            lc \in ChosenLayouts(BbuStatuses, CtlStatuses, ctl, items)}

MalformedControllerDocs(version, ctl) ==
    LET lists == {[i \in 1..Len(lc[1]) |-> CtlBlock(version, i - 1, lc[2][i], <<>>)] :
                     lc \in ChosenLayouts({}, CtlStatuses, ctl, 0)}
        bad == [n \in 0..(ctl - 1) |-> BadCtlBlocks(version, n)]
    IN  {[Controllers |-> l] : l \in OneBadBlockLists(lists, bad)}
        \cup {[Other |-> "x"]}

\* the replies to a query: every document with return code 0, and text that is
\* not JSON and the documents of failed with either return code
Replies(docs, failed) ==
    {[returncode |-> 0, text |-> Json(d)] : d \in docs}
    \cup {[returncode |-> rc, text |-> t] :
            rc \in {0, 1}, t \in {NotJson} \cup {Json(d) : d \in failed}}

ControllerReplies(version, ctl, items) ==
    Replies(WellFormedControllerDocs(version, ctl, items)
                \cup MalformedControllerDocs(version, ctl),
            WellFormedControllerDocs(version, 1, 0))

(***************************************************************************)
(* Perccli7Manager.check_controllers, Perccli8Manager.check_controllers    *)
(***************************************************************************)
\* ControllerInfo.bbu is the one field that is not always a str: the value
\* carries its Python type
PyList(items) == [type |-> "list", items |-> items]
PyStr(value) == [type |-> "str", value |-> value]

\* all(item == "Optimal" for item in cinfo.bbu)
AllOptimal(bbu) == \A i \in 1..Len(bbu.items) : bbu.items[i] = "Optimal"

\* ControllerInfo(...) of one controller block of version 7
ControllerInfo7(controller) ==
    IF ~Has(controller, "Response Data") THEN [exc |-> "KeyError"]
    ELSE LET resp == controller["Response Data"] IN
    IF \/ ~HasPath(controller, <<"Command Status", "Controller">>)
       \/ ~HasPath(resp, <<"Status", "Controller Status">>)
       \/ ~HasPath(resp, <<"Basics", "Model">>)
       \/ ~HasPath(resp, <<"HwCfg", "On Board Memory Size">>)
       \/ ~HasPath(resp, <<"HwCfg", "Ctrl temperature(Degree Celsius)">>)
       \/ ~HasPath(resp, <<"Version", "Firmware Version">>)
       \/ ~Has(resp, "BBU_Info")
    THEN [exc |-> "KeyError"]
    ELSE IF \E i \in 1..Len(resp["BBU_Info"]) : ~Has(resp["BBU_Info"][i], "State")
    THEN [exc |-> "KeyError"]
    ELSE [exc |-> "none",
          val |-> [cid |-> "C" \o ToString(controller["Command Status"]["Controller"]),
                   status |-> resp["Status"]["Controller Status"],
                   model |-> resp["Basics"]["Model"],
                   ram |-> resp["HwCfg"]["On Board Memory Size"],
                   temp |-> resp["HwCfg"]["Ctrl temperature(Degree Celsius)"],
                   firmware |-> resp["Version"]["Firmware Version"],
                   bbu |-> PyList([i \in 1..Len(resp["BBU_Info"]) |->
                                      resp["BBU_Info"][i]["State"]])]]

\* an update that lets a healthy block lower the exit code again
ControllerExitCodeOfLast(exit_code_, cinfo) ==
    IF cinfo.status # "Optimal" \/ ~AllOptimal(cinfo.bbu) THEN CRITICAL ELSE OK

\* the two if statements after ControllerInfo(...): the exit code so far, updated
ControllerExitCode7(exit_code_, cinfo) ==
    IF cinfo.status # "Optimal" \/ ~AllOptimal(cinfo.bbu) THEN CRITICAL ELSE exit_code_

\* the for loop over controller_data["Controllers"], from block i on
RECURSIVE ControllersLoop7(_, _, _, _)
ControllersLoop7(controllers, i, exit_code_, all_controllers) ==
    IF i > Len(controllers) THEN Return(exit_code_, all_controllers)
    ELSE LET cinfo == ControllerInfo7(controllers[i]) IN
         IF cinfo.exc # "none" THEN Raise(cinfo.exc)
         ELSE ControllersLoop7(controllers, i + 1,
                               ControllerExitCode7(exit_code_, cinfo.val),
                               Append(all_controllers, cinfo.val))

Perccli7Manager_check_controllers(reply) ==
    LET controller_data == json_command(reply) IN
    IF controller_data.exc = "JsonCommandError" THEN Return(CRITICAL, <<>>)
    ELSE IF ~Has(controller_data.val, "Controllers") THEN Raise("KeyError")
    ELSE ControllersLoop7(controller_data.val["Controllers"], 1, OK, <<>>)

ControllerInfo8(controller) ==
    IF ~Has(controller, "Response Data") THEN [exc |-> "KeyError"]
    ELSE LET resp == controller["Response Data"] IN
    IF \/ ~HasPath(controller, <<"Command Status", "Controller">>)
       \/ ~HasPath(resp, <<"Status", "Controller Status">>)
       \/ ~HasPath(resp, <<"Basics", "Product Name">>)
       \/ ~HasPath(resp, <<"HwCfg", "DDR Memory Size(MiB)">>)
       \/ ~HasPath(resp, <<"HwCfg", "Chip temperature(C)">>)
       \/ ~HasPath(resp, <<"Version", "Firmware Version">>)
       \/ ~Has(resp, "Energy Pack Info")
    THEN [exc |-> "KeyError"]
    ELSE IF \E i \in 1..Len(resp["Energy Pack Info"]) :
                ~Has(resp["Energy Pack Info"][i], "Status")
    THEN [exc |-> "KeyError"]
    ELSE [exc |-> "none",
          val |-> [cid |-> "C" \o ToString(controller["Command Status"]["Controller"]),
                   status |-> resp["Status"]["Controller Status"],
                   model |-> resp["Basics"]["Product Name"],
                   ram |-> resp["HwCfg"]["DDR Memory Size(MiB)"],
                   temp |-> resp["HwCfg"]["Chip temperature(C)"],
                   firmware |-> resp["Version"]["Firmware Version"],
                   bbu |-> PyList([i \in 1..Len(resp["Energy Pack Info"]) |->
                                      resp["Energy Pack Info"][i]["Status"]])]]

ControllerExitCode8(exit_code_, cinfo) ==
    IF cinfo.status # "Optimal" \/ ~AllOptimal(cinfo.bbu) THEN CRITICAL ELSE exit_code_

RECURSIVE ControllersLoop8(_, _, _, _)
ControllersLoop8(controllers, i, exit_code_, all_controllers) ==
    IF i > Len(controllers) THEN Return(exit_code_, all_controllers)
    ELSE LET cinfo == ControllerInfo8(controllers[i]) IN
         IF cinfo.exc # "none" THEN Raise(cinfo.exc)
         ELSE ControllersLoop8(controllers, i + 1,
                               ControllerExitCode8(exit_code_, cinfo.val),
                               Append(all_controllers, cinfo.val))

Perccli8Manager_check_controllers(reply) ==
    LET controller_data == json_command(reply) IN
    IF controller_data.exc = "JsonCommandError" THEN Return(CRITICAL, <<>>)
    ELSE IF ~Has(controller_data.val, "Controllers") THEN Raise("KeyError")
    ELSE ControllersLoop8(controller_data.val["Controllers"], 1, OK, <<>>)


(***************************************************************************)
(* Documents of "/call/vall show all j".                                   *)
(***************************************************************************)
VdStatuses == {"Optl", "Dgrd"}

\* the key k of an object removed when the object has it
DropIn(d, k) == IF k \in DOMAIN d THEN DropKey(d, k) ELSE d

\* value of "DG/VD" of virtual disk j, as characters
DgVd(j) == <<"0", "/">> \o DecChars(j)

VdInfo(j, status) ==
    ("DG/VD" :> DgVd(j)) @@ [TYPE |-> "RAID1", State |-> status, Size |-> "931.0 GB"]

VdProps(j) ==
    ("Strip Size" :> "64 KB") @@ ("OS Drive Name" :> "/dev/sd" \o ToString(j))

VdName(n, j) == <<"/", "c">> \o DecChars(n) \o <<"/", "v">> \o DecChars(j)
PdsName(j) == <<"P", "D", "s", " ", "f", "o", "r", " ", "V", "D", " ">> \o DecChars(j)
PropsName(num) ==
    <<"V", "D">> \o num \o <<" ", "P", "r", "o", "p", "e", "r", "t", "i", "e", "s">>

\* the items of version 7's "Response Data" for virtual disk j, in the order
\* perccli prints them; bad names the key that is missing, if any
Vd7Items(n, j, status, bad) ==
    << [k |-> VdName(n, j),
        v |-> IF bad = "vdisk[0]" THEN <<>> ELSE << DropIn(VdInfo(j, status), bad) >>],
       [k |-> PdsName(j), v |-> <<>>] >>
    \o (IF bad = "Properties" THEN <<>>
        ELSE << [k |-> PropsName(DecChars(j)), v |-> DropIn(VdProps(j), bad)] >>)

Vd8Item(j, status, bad) ==
    DropIn(("VD Info" :> DropIn(("DG/VD" :> Str(DgVd(j))) @@
                                [TYPE |-> "RAID1", State |-> status, Size |-> "931.0 GB"],
                                bad)) @@
           ("VD Properties" :> DropIn(VdProps(j), bad)), bad)

\* a controller block around the response data resp
DiskBlock(n, marker, resp, bad) ==
    DropIn(("Command Status" :>
               (IF bad = "Controller" THEN [Status |-> marker]
                ELSE IF bad = "Command Status.Status" THEN [Controller |-> n]
                ELSE CommandStatus(n, marker))) @@
           ("Response Data" :> resp),
           IF bad \in {"Command Status", "Response Data"} THEN bad ELSE "none")

RECURSIVE Concat(_)
Concat(seqs) == IF seqs = <<>> THEN <<>> ELSE Head(seqs) \o Concat(Tail(seqs))

\* the block of controller n with virtual disks of the statuses sts; the key
\* bad is missing from the block or from its last virtual disk
Vd7Block(n, sts, bad) ==
    DiskBlock(n, "Success",
        Concat([j \in 1..Len(sts) |->
                   Vd7Items(n, j - 1, sts[j], IF j = Len(sts) THEN bad ELSE "none")]),
        bad)

Vd8Block(n, sts, bad) ==
    DiskBlock(n, "Success",
        DropIn("Virtual Drives" :>
                  [j \in 1..Len(sts) |->
                      Vd8Item(j - 1, sts[j], IF j = Len(sts) THEN bad ELSE "none")],
               bad),
        bad)

VdBlock(version, n, sts, bad) ==
    IF version = 7 THEN Vd7Block(n, sts, bad) ELSE Vd8Block(n, sts, bad)

\* the keys check_virtual_disks reads for every virtual disk
Vd7Keys ==
    {"Command Status", "Controller", "vdisk[0]", "DG/VD", "TYPE", "Size", "State",
     "Properties", "Strip Size", "OS Drive Name"}

Vd8Keys ==
    {"Command Status", "Controller", "VD Info", "DG/VD", "TYPE", "Size", "State",
     "VD Properties", "Strip Size", "OS Drive Name"}

\* and those it reads for every controller
Vd7BlockKeys == {"Response Data"}
Vd8BlockKeys == {"Response Data", "Virtual Drives"}

\* blocks with a key missing: from the block itself, or from its last virtual
\* disk after before healthy ones
BadVdBlocks(version, n, before) ==
    {VdBlock(version, n, <<>>, bad) :
        bad \in IF version = 7 THEN Vd7BlockKeys ELSE Vd8BlockKeys}
    \cup {VdBlock(version, n, [j \in 1..m |-> "Optl"] \o << s >>, bad) :
            m \in 0..before, s \in VdStatuses,
            bad \in IF version = 7 THEN Vd7Keys ELSE Vd8Keys}

WellFormedVirtualDocs(version, ctl, items) ==
    LET good(n, sts, c) == VdBlock(version, n, sts, "none")
    IN  {[Controllers |-> [i \in 1..Len(lc[1]) |-> good(i - 1, lc[1][i], lc[2][i])]] :
            lc \in ChosenLayouts(VdStatuses, {0}, ctl, items)}

MalformedVirtualDocs(version, ctl, items) ==
    LET lists == {[i \in 1..Len(lc[1]) |-> VdBlock(version, i - 1, << lc[2][i] >>, "none")] :
                     lc \in ChosenLayouts({}, {"Optl"}, ctl, 0)}
        bad == [n \in 0..(ctl - 1) |-> BadVdBlocks(version, n, IF items > 1 THEN 1 ELSE 0)]
    IN  {[Controllers |-> l] : l \in OneBadBlockLists(lists, bad)}
        \cup {[Other |-> "x"]}

VirtualReplies(version, ctl, items) ==
    Replies(WellFormedVirtualDocs(version, ctl, items)
                \cup MalformedVirtualDocs(version, ctl, items),
            WellFormedVirtualDocs(version, 1, 0))

(***************************************************************************)
(* Perccli7Manager.check_virtual_disks, Perccli8Manager.check_virtual_disks*)
(***************************************************************************)
\* name.startswith(prefix)
StartsWith(name, prefix) ==
    Len(name) >= Len(prefix) /\ SubSeq(name, 1, Len(prefix)) = prefix

\* s.split(sep)[-1]: what follows the last sep of s, all of s when it has none
RECURSIVE LastSegment(_, _)
LastSegment(chars, sep) ==
    IF \A i \in 1..Len(chars) : chars[i] # sep THEN chars
    ELSE LastSegment(Tail(chars), sep)

\* resp[key] of an object kept as its sequence of items
HasItem(resp, key) == \E i \in 1..Len(resp) : resp[i].k = key
Item(resp, key) == resp[CHOOSE i \in 1..Len(resp) : resp[i].k = key].v

\* vdisk_props and VdiskInfo(...) of the item (name, vdisk) of resp
VdiskInfo7(controller, resp, vdisk) ==
    IF vdisk = <<>> THEN [exc |-> "IndexError"]
    ELSE IF ~Has(vdisk[1], "DG/VD") THEN [exc |-> "KeyError"]
    ELSE LET vdisk_props == PropsName(LastSegment(vdisk[1]["DG/VD"], "/")) IN
    IF \/ ~HasPath(controller, <<"Command Status", "Controller">>)
       \/ ~Has(vdisk[1], "TYPE")
       \/ ~Has(vdisk[1], "Size")
       \/ ~HasItem(resp, vdisk_props)
       \/ ~Has(vdisk[1], "State")
    THEN [exc |-> "KeyError"]
    ELSE IF \/ ~Has(Item(resp, vdisk_props), "Strip Size")
            \/ ~Has(Item(resp, vdisk_props), "OS Drive Name")
    THEN [exc |-> "KeyError"]
    ELSE [exc |-> "none",
          val |-> [vid |-> "C" \o ToString(controller["Command Status"]["Controller"])
                               \o " V" \o Str(vdisk[1]["DG/VD"]),
                   type |-> vdisk[1]["TYPE"],
                   size |-> vdisk[1]["Size"],
                   strip |-> Item(resp, vdisk_props)["Strip Size"],
                   status |-> vdisk[1]["State"],
                   ospath |-> Item(resp, vdisk_props)["OS Drive Name"]]]

VdiskExitCode7(exit_code_, vinfo) ==
    IF vinfo.status # "Optl" THEN CRITICAL ELSE exit_code_

\* the loops over virtual_data["Controllers"] and resp.items(), from item j of
\* controller i on; [exc, ret, info]
RECURSIVE VdisksLoop7(_, _, _, _, _)
VdisksLoop7(controllers, i, j, exit_code_, all_vdisks) ==
    IF i > Len(controllers) THEN Return(exit_code_, all_vdisks)
    ELSE IF ~Has(controllers[i], "Response Data") THEN Raise("KeyError")
    ELSE LET resp == controllers[i]["Response Data"] IN
    IF j > Len(resp) THEN VdisksLoop7(controllers, i + 1, 1, exit_code_, all_vdisks)
    ELSE IF ~StartsWith(resp[j].k, <<"/", "c">>)
    THEN VdisksLoop7(controllers, i, j + 1, exit_code_, all_vdisks)
    ELSE LET vinfo == VdiskInfo7(controllers[i], resp, resp[j].v) IN
         IF vinfo.exc # "none" THEN Raise(vinfo.exc)
         ELSE VdisksLoop7(controllers, i, j + 1,
                          VdiskExitCode7(exit_code_, vinfo.val),
                          Append(all_vdisks, vinfo.val))

Perccli7Manager_check_virtual_disks(reply) ==
    LET virtual_data == json_command(reply) IN
    IF virtual_data.exc = "JsonCommandError" THEN Return(CRITICAL, <<>>)
    ELSE IF ~Has(virtual_data.val, "Controllers") THEN Raise("KeyError")
    ELSE VdisksLoop7(virtual_data.val["Controllers"], 1, 1, OK, <<>>)

VdiskInfo8(controller, vdisk) ==
    IF \/ ~HasPath(controller, <<"Command Status", "Controller">>)
       \/ ~HasPath(vdisk, <<"VD Info", "DG/VD">>)
       \/ ~HasPath(vdisk, <<"VD Info", "TYPE">>)
       \/ ~HasPath(vdisk, <<"VD Info", "Size">>)
       \/ ~HasPath(vdisk, <<"VD Properties", "Strip Size">>)
       \/ ~HasPath(vdisk, <<"VD Info", "State">>)
       \/ ~HasPath(vdisk, <<"VD Properties", "OS Drive Name">>)
    THEN [exc |-> "KeyError"]
    ELSE [exc |-> "none",
          val |-> [vid |-> "C" \o ToString(controller["Command Status"]["Controller"])
                               \o " V" \o vdisk["VD Info"]["DG/VD"],
                   type |-> vdisk["VD Info"]["TYPE"],
                   size |-> vdisk["VD Info"]["Size"],
                   strip |-> vdisk["VD Properties"]["Strip Size"],
                   status |-> vdisk["VD Info"]["State"],
                   ospath |-> vdisk["VD Properties"]["OS Drive Name"]]]

\* an update that grades a status other than "Optl" as a warning
VdiskExitCodeWarning(exit_code_, vinfo) ==
    IF vinfo.status # "Optl" THEN Max(WARNING, exit_code_) ELSE exit_code_

VdiskExitCode8(exit_code_, vinfo) ==
    IF vinfo.status # "Optl" THEN CRITICAL ELSE exit_code_

RECURSIVE VdisksLoop8(_, _, _, _, _)
VdisksLoop8(controllers, i, j, exit_code_, all_vdisks) ==
    IF i > Len(controllers) THEN Return(exit_code_, all_vdisks)
    ELSE IF ~HasPath(controllers[i], <<"Response Data", "Virtual Drives">>)
    THEN Raise("KeyError")
    ELSE LET vdisks == controllers[i]["Response Data"]["Virtual Drives"] IN
    IF j > Len(vdisks) THEN VdisksLoop8(controllers, i + 1, 1, exit_code_, all_vdisks)
    ELSE LET vinfo == VdiskInfo8(controllers[i], vdisks[j]) IN
         IF vinfo.exc # "none" THEN Raise(vinfo.exc)
         ELSE VdisksLoop8(controllers, i, j + 1,
                          VdiskExitCode8(exit_code_, vinfo.val),
                          Append(all_vdisks, vinfo.val))

Perccli8Manager_check_virtual_disks(reply) ==
    LET virtual_data == json_command(reply) IN
    IF virtual_data.exc = "JsonCommandError" THEN Return(CRITICAL, <<>>)
    ELSE IF ~Has(virtual_data.val, "Controllers") THEN Raise("KeyError")
    ELSE VdisksLoop8(virtual_data.val["Controllers"], 1, 1, OK, <<>>)


(***************************************************************************)
(* Documents of "/call/eall/sall show all j" and "/call/sall show all j".  *)
(***************************************************************************)
PdStatuses == {"Onln", "GHS", "Online", "Good", "Failed"}

\* "Drive /c0/e32/s1", and "Drive /c0/s1" from a controller without enclosures
DriveName(n, encl, j) ==
    <<"D", "r", "i", "v", "e", " ", "/", "c">> \o DecChars(n)
    \o (IF encl THEN <<"/", "e", "3", "2">> ELSE <<>>)
    \o <<"/", "s">> \o DecChars(j)

DetailedSuffix ==
    <<" ", "-", " ", "D", "e", "t", "a", "i", "l", "e", "d", " ",
      "I", "n", "f", "o", "r", "m", "a", "t", "i", "o", "n">>
AttributesSuffix ==
    <<" ", "D", "e", "v", "i", "c", "e", " ", "a", "t", "t", "r", "i", "b", "u", "t", "e", "s">>
StateSuffix == <<" ", "S", "t", "a", "t", "e">>

EidSlt(encl, j) == (IF encl THEN "32" ELSE " ") \o ":" \o ToString(j)

Pd7Info(encl, j, status) ==
    ("EID:Slt" :> EidSlt(encl, j)) @@
    [State |-> status, Size |-> "3.637 TB", Intf |-> "SAS", Med |-> "HDD",
     Model |-> "MG04SCA40ENY"]

\* "Drive Temperature" comes with blanks around it
Pd7Detail(name, bad) ==
    (IF bad = "State block" THEN <<>>
     ELSE (name \o StateSuffix) :>
              (IF bad = "Drive Temperature" THEN [Other |-> "x"]
               ELSE ("Drive Temperature" :> <<" ", "3", "0", "C", " ">>))) @@
    (IF bad = "Device attributes" THEN <<>>
     ELSE (name \o AttributesSuffix) :>
              (IF bad = "Link Speed" THEN [Other |-> "x"]
               ELSE ("Link Speed" :> "12.0Gb/s")))

Pd7Items(n, encl, j, status, bad) ==
    << [k |-> DriveName(n, encl, j),
        v |-> IF bad = "pdisk[0]" THEN <<>> ELSE << DropIn(Pd7Info(encl, j, status), bad) >>] >>
    \o (IF bad = "Detailed Information" THEN <<>>
        ELSE << [k |-> DriveName(n, encl, j) \o DetailedSuffix,
                 v |-> Pd7Detail(DriveName(n, encl, j), bad)] >>)

Pd8Item(j, status, bad) ==
    DropIn(("Drive Information" :>
               DropIn(("EID:Slt" :> EidSlt(TRUE, j)) @@
                      [Status |-> status, Size |-> "3.637 TB", Intf |-> "SAS",
                       Med |-> "HDD", Model |-> "MG04SCA40ENY"], bad)) @@
           ("Drive Detailed Information" :>
               DropIn(("Path Information" :>
                          (IF bad = "Path Information[0]" THEN <<>>
                           ELSE << DropIn(("Negotiated Speed" :> "12.0Gb/s") @@
                                          [Other |-> "x"], bad) >>)) @@
                      ("Temperature(C)" :> "30"), bad)), bad)

Pd7Block(n, marker, encl, sts, bad) ==
    DiskBlock(n, marker,
        Concat([j \in 1..Len(sts) |->
                   Pd7Items(n, encl, j - 1, sts[j], IF j = Len(sts) THEN bad ELSE "none")]),
        bad)

Pd8Block(n, sts, bad) ==
    DiskBlock(n, "Success",
        DropIn("Drives List" :>
                  [j \in 1..Len(sts) |->
                      Pd8Item(j - 1, sts[j], IF j = Len(sts) THEN bad ELSE "none")],
               bad),
        bad)

\* the keys check_phys_disks reads for every drive
Pd7Keys ==
    {"Command Status", "Controller", "pdisk[0]", "EID:Slt", "Intf", "Med", "Model", "Size",
     "State", "Detailed Information", "Device attributes", "Link Speed", "State block",
     "Drive Temperature"}

Pd8Keys ==
    {"Command Status", "Controller", "Drive Information", "EID:Slt", "Intf", "Med", "Model",
     "Size", "Status", "Drive Detailed Information", "Path Information",
     "Path Information[0]", "Negotiated Speed", "Temperature(C)"}

\* and those it reads for every controller
Pd7BlockKeys == {"Response Data"}
Pd8BlockKeys == {"Response Data", "Drives List"}

\* version 7 reads the marker "Status" of the first controller's
\* "Command Status" before anything else
Pd7MarkerKeys == {"Command Status", "Command Status.Status"}

BadPd7Blocks(n, encl, before) ==
    {Pd7Block(n, "Success", encl, <<>>, bad) : bad \in Pd7BlockKeys}
    \cup {Pd7Block(n, "Success", encl, [j \in 1..m |-> "Onln"] \o << s >>, bad) :
            m \in 0..before, s \in {"Onln", "Failed"}, bad \in Pd7Keys}

BadPd8Blocks(n, before) ==
    {Pd8Block(n, <<>>, bad) : bad \in Pd8BlockKeys}
    \cup {Pd8Block(n, [j \in 1..m |-> "Online"] \o << s >>, bad) :
            m \in 0..before, s \in {"Online", "Failed"}, bad \in Pd8Keys}

\* version 7, every key present and the marker "Success"
WellFormedPhys7Docs(S, encl, ctl, items) ==
    LET good(n, sts, c) == Pd7Block(n, "Success", encl, sts, "none")
    IN  {[Controllers |-> [i \in 1..Len(lc[1]) |-> good(i - 1, lc[1][i], lc[2][i])]] :
            lc \in ChosenLayouts(S, {0}, ctl, items)} \ {[Controllers |-> <<>>]}

\* version 7, a marker that is not "Success": perccli found nothing to report
\* on, or reports all the same
FailurePhys7Docs(S, encl) ==
    {[Controllers |-> << Pd7Block(0, "Failure", encl, sts, bad) >>] :
        sts \in SeqUpTo(S, 1), bad \in {"none", "Response Data"}}

\* version 7, a key missing; without a first controller there is no marker
MalformedPhys7Docs(encl, ctl, items) ==
    LET lists == {[i \in 1..Len(lc[1]) |->
                        Pd7Block(i - 1, "Success", encl, << lc[2][i] >>, "none")] :
                     lc \in ChosenLayouts({}, {"Onln"}, ctl, 0)}
        bad == [n \in 0..(ctl - 1) |-> BadPd7Blocks(n, encl, IF items > 1 THEN 1 ELSE 0)]
    IN  {[Controllers |-> l] : l \in OneBadBlockLists(lists, bad)}
        \cup {[Controllers |-> << Pd7Block(0, "Success", encl, << "Onln" >>, key) >>] :
                key \in Pd7MarkerKeys}
        \cup {[Other |-> "x"], [Controllers |-> <<>>]}

WellFormedPhys8Docs(S, ctl, items) ==
    LET good(n, sts, c) == Pd8Block(n, sts, "none")
    IN  {[Controllers |-> [i \in 1..Len(lc[1]) |-> good(i - 1, lc[1][i], lc[2][i])]] :
            lc \in ChosenLayouts(S, {0}, ctl, items)}

MalformedPhys8Docs(ctl, items) ==
    LET lists == {[i \in 1..Len(lc[1]) |-> Pd8Block(i - 1, << lc[2][i] >>, "none")] :
                     lc \in ChosenLayouts({}, {"Online"}, ctl, 0)}
        bad == [n \in 0..(ctl - 1) |-> BadPd8Blocks(n, IF items > 1 THEN 1 ELSE 0)]
    IN  {[Controllers |-> l] : l \in OneBadBlockLists(lists, bad)}
        \cup {[Other |-> "x"]}

\* the replies to version 7's first query (encl) and to its second
Phys7Replies(S, encl, ctl, items) ==
    Replies(WellFormedPhys7Docs(S, encl, ctl, items)
                \cup FailurePhys7Docs(S, encl)
                \cup MalformedPhys7Docs(encl, ctl, items),
            WellFormedPhys7Docs(S, encl, 1, 0))

Phys8Replies(S, ctl, items) ==
    Replies(WellFormedPhys8Docs(S, ctl, items) \cup MalformedPhys8Docs(ctl, items),
            WellFormedPhys8Docs(S, 1, 0))


(***************************************************************************)
(* Perccli7Manager._phys_disks_data, Perccli7Manager.check_phys_disks,     *)
(* Perccli8Manager.check_phys_disks                                        *)
(***************************************************************************)
\* re.match(r"^Drive /c[0-9]+(/e[0-9]+)?/s[0-9]+$", name)
RECURSIVE SkipDigits(_)
SkipDigits(chars) ==
    IF chars # <<>> /\ Head(chars) \in Digits THEN SkipDigits(Tail(chars)) ELSE chars

\* [ok, rest]: chars is sep, then one digit or more, then rest
DigitsAfter(chars, sep) ==
    IF /\ StartsWith(chars, sep)
       /\ Len(chars) > Len(sep)
       /\ chars[Len(sep) + 1] \in Digits
    THEN [ok |-> TRUE, rest |-> SkipDigits(SubSeq(chars, Len(sep) + 1, Len(chars)))]
    ELSE [ok |-> FALSE, rest |-> <<>>]

DriveNameMatches(name) ==
    LET controller == DigitsAfter(name, <<"D", "r", "i", "v", "e", " ", "/", "c">>)
        enclosure == DigitsAfter(controller.rest, <<"/", "e">>)
        slot == DigitsAfter(controller.rest, <<"/", "s">>)
        enclosure_slot == DigitsAfter(enclosure.rest, <<"/", "s">>)
    IN  /\ controller.ok
        /\ \/ slot.ok /\ slot.rest = <<>>
           \/ enclosure.ok /\ enclosure_slot.ok /\ enclosure_slot.rest = <<>>

\* s.strip()
Whitespace == {" ", "\t", "\n", "\r"}

RECURSIVE Strip(_)
Strip(chars) ==
    IF chars = <<>> THEN chars
    ELSE IF Head(chars) \in Whitespace THEN Strip(Tail(chars))
    ELSE IF chars[Len(chars)] \in Whitespace THEN Strip(SubSeq(chars, 1, Len(chars) - 1))
    ELSE chars

\* disk_data["Controllers"][0]["Command Status"]["Status"]
StatusMarker(disk_data) ==
    IF ~Has(disk_data, "Controllers") THEN [exc |-> "KeyError"]
    ELSE IF disk_data["Controllers"] = <<>> THEN [exc |-> "IndexError"]
    ELSE IF ~HasPath(disk_data["Controllers"][1], <<"Command Status", "Status">>)
    THEN [exc |-> "KeyError"]
    ELSE [exc |-> "none", val |-> disk_data["Controllers"][1]["Command Status"]["Status"]]

\* the second query of _phys_disks_data, reached when the first document's
\* marker is not "Success"
PhysDisksSecond(second) ==
    LET disk_data == json_command(second) IN
    IF disk_data.exc # "none" THEN [exc |-> disk_data.exc, queries |-> 2]
    ELSE LET marker == StatusMarker(disk_data.val) IN
         IF marker.exc # "none" THEN [exc |-> marker.exc, queries |-> 2]
         ELSE IF marker.val = "Success"
         THEN [exc |-> "none", val |-> disk_data.val, queries |-> 2]
         ELSE [exc |-> "JsonCommandError", queries |-> 2]

\* a probing that also goes on to the second variant when the first query fails
PhysDisksDataRetrying(first, second) ==
    LET disk_data == json_command(first) IN
    IF disk_data.exc # "none" THEN PhysDisksSecond(second)
    ELSE LET marker == StatusMarker(disk_data.val) IN
         IF marker.exc # "none" THEN [exc |-> marker.exc, queries |-> 1]
         ELSE IF marker.val = "Success"
         THEN [exc |-> "none", val |-> disk_data.val, queries |-> 1]
         ELSE PhysDisksSecond(second)

\* [exc, val, queries]: first and second are the replies to "/call/eall/sall"
\* and to "/call/sall"; queries is the number of them that were run
Perccli7Manager__phys_disks_data(first, second) ==
    LET disk_data == json_command(first) IN
    IF disk_data.exc # "none" THEN [exc |-> disk_data.exc, queries |-> 1]
    ELSE LET marker == StatusMarker(disk_data.val) IN
         IF marker.exc # "none" THEN [exc |-> marker.exc, queries |-> 1]
         ELSE IF marker.val = "Success"
         THEN [exc |-> "none", val |-> disk_data.val, queries |-> 1]
         ELSE PhysDisksSecond(second)

PdiskInfo7(controller, resp, name, pdisk) ==
    IF ~HasPath(controller, <<"Command Status", "Controller">>) THEN [exc |-> "KeyError"]
    ELSE IF pdisk = <<>> THEN [exc |-> "IndexError"]
    ELSE IF \/ ~Has(pdisk[1], "EID:Slt")
            \/ ~Has(pdisk[1], "Intf")
            \/ ~Has(pdisk[1], "Med")
            \/ ~Has(pdisk[1], "Model")
            \/ ~Has(pdisk[1], "Size")
            \/ ~Has(pdisk[1], "State")
            \/ ~HasItem(resp, name \o DetailedSuffix)
    THEN [exc |-> "KeyError"]
    ELSE LET detail == Item(resp, name \o DetailedSuffix) IN
    IF \/ ~HasPath(detail, << name \o AttributesSuffix, "Link Speed" >>)
       \/ ~HasPath(detail, << name \o StateSuffix, "Drive Temperature" >>)
    THEN [exc |-> "KeyError"]
    ELSE [exc |-> "none",
          val |-> [did |-> "C" \o ToString(controller["Command Status"]["Controller"])
                               \o " P" \o pdisk[1]["EID:Slt"],
                   type |-> pdisk[1]["Intf"] \o " " \o pdisk[1]["Med"],
                   model |-> pdisk[1]["Model"],
                   size |-> pdisk[1]["Size"],
                   status |-> pdisk[1]["State"],
                   speed |-> detail[name \o AttributesSuffix]["Link Speed"],
                   temp |-> Str(Strip(detail[name \o StateSuffix]["Drive Temperature"]))]]

\* version 7's update with version 8's status names
PdiskExitCodeOtherNames(exit_code_, pinfo) ==
    IF pinfo.status \notin {"Online", "Good"} THEN CRITICAL ELSE exit_code_

PdiskExitCode7(exit_code_, pinfo) ==
    IF pinfo.status \notin {"Onln", "GHS"} THEN CRITICAL ELSE exit_code_

RECURSIVE PdisksLoop7(_, _, _, _, _)
PdisksLoop7(controllers, i, j, exit_code_, all_disks) ==
    IF i > Len(controllers) THEN Return(exit_code_, all_disks)
    ELSE IF ~Has(controllers[i], "Response Data") THEN Raise("KeyError")
    ELSE LET resp == controllers[i]["Response Data"] IN
    IF j > Len(resp) THEN PdisksLoop7(controllers, i + 1, 1, exit_code_, all_disks)
    ELSE IF ~DriveNameMatches(resp[j].k)
    THEN PdisksLoop7(controllers, i, j + 1, exit_code_, all_disks)
    ELSE LET pinfo == PdiskInfo7(controllers[i], resp, resp[j].k, resp[j].v) IN
         IF pinfo.exc # "none" THEN Raise(pinfo.exc)
         ELSE PdisksLoop7(controllers, i, j + 1,
                          PdiskExitCode7(exit_code_, pinfo.val),
                          Append(all_disks, pinfo.val))

\* [exc, ret, info, queries]
Perccli7Manager_check_phys_disks(first, second) ==
    LET disk_data == Perccli7Manager__phys_disks_data(first, second) IN
    IF disk_data.exc \in {"JsonCommandError", "KeyError"}
    THEN Return(CRITICAL, <<>>) @@ [queries |-> disk_data.queries]
    ELSE IF disk_data.exc # "none"
    THEN Raise(disk_data.exc) @@ [queries |-> disk_data.queries]
    ELSE PdisksLoop7(disk_data.val["Controllers"], 1, 1, OK, <<>>)
            @@ [queries |-> disk_data.queries]

PdiskInfo8(controller, pdisk) ==
    IF \/ ~HasPath(controller, <<"Command Status", "Controller">>)
       \/ ~HasPath(pdisk, <<"Drive Information", "EID:Slt">>)
       \/ ~HasPath(pdisk, <<"Drive Information", "Intf">>)
       \/ ~HasPath(pdisk, <<"Drive Information", "Med">>)
       \/ ~HasPath(pdisk, <<"Drive Information", "Model">>)
       \/ ~HasPath(pdisk, <<"Drive Information", "Size">>)
       \/ ~HasPath(pdisk, <<"Drive Information", "Status">>)
       \/ ~HasPath(pdisk, <<"Drive Detailed Information", "Path Information">>)
    THEN [exc |-> "KeyError"]
    ELSE LET detail == pdisk["Drive Detailed Information"] IN
    IF detail["Path Information"] = <<>> THEN [exc |-> "IndexError"]
    ELSE IF \/ ~Has(detail["Path Information"][1], "Negotiated Speed")
            \/ ~Has(detail, "Temperature(C)")
    THEN [exc |-> "KeyError"]
    ELSE [exc |-> "none",
          val |-> [did |-> "C" \o ToString(controller["Command Status"]["Controller"])
                               \o " P" \o pdisk["Drive Information"]["EID:Slt"],
                   type |-> pdisk["Drive Information"]["Intf"] \o " "
                                \o pdisk["Drive Information"]["Med"],
                   model |-> pdisk["Drive Information"]["Model"],
                   size |-> pdisk["Drive Information"]["Size"],
                   status |-> pdisk["Drive Information"]["Status"],
                   speed |-> detail["Path Information"][1]["Negotiated Speed"],
                   temp |-> detail["Temperature(C)"]]]

PdiskExitCode8(exit_code_, pinfo) ==
    IF pinfo.status \notin {"Online", "Good"} THEN CRITICAL ELSE exit_code_

RECURSIVE PdisksLoop8(_, _, _, _, _)
PdisksLoop8(controllers, i, j, exit_code_, all_disks) ==
    IF i > Len(controllers) THEN Return(exit_code_, all_disks)
    ELSE IF ~HasPath(controllers[i], <<"Response Data", "Drives List">>)
    THEN Raise("KeyError")
    ELSE LET pdisks == controllers[i]["Response Data"]["Drives List"] IN
    IF j > Len(pdisks) THEN PdisksLoop8(controllers, i + 1, 1, exit_code_, all_disks)
    ELSE LET pinfo == PdiskInfo8(controllers[i], pdisks[j]) IN
         IF pinfo.exc # "none" THEN Raise(pinfo.exc)
         ELSE PdisksLoop8(controllers, i, j + 1,
                          PdiskExitCode8(exit_code_, pinfo.val),
                          Append(all_disks, pinfo.val))

Perccli8Manager_check_phys_disks(reply) ==
    LET disk_data == json_command(reply) IN
    IF disk_data.exc = "JsonCommandError" THEN Return(CRITICAL, <<>>)
    ELSE IF ~Has(disk_data.val, "Controllers") THEN Raise("KeyError")
    ELSE PdisksLoop8(disk_data.val["Controllers"], 1, 1, OK, <<>>)


(***************************************************************************)
(* format_table                                                            *)
(***************************************************************************)
\* isinstance(getattr(row, name), list)
IsList(row, name) == name = "bbu" /\ row[name].type = "list"

\* len(str(getattr(row, name))): str of a list is its repr, "['a', 'b']"
RECURSIVE SumLen(_)
SumLen(items) == IF items = <<>> THEN 0 ELSE Len(Head(items)) + SumLen(Tail(items))

StrLen(row, name) ==
    IF IsList(row, name)
    THEN IF row[name].items = <<>> THEN 2
         ELSE 2 + SumLen(row[name].items) + 2 * Len(row[name].items)
                + 2 * (Len(row[name].items) - 1)
    ELSE IF name = "bbu" THEN Len(row[name].value)
    ELSE Len(row[name])

RECURSIVE ColumnWidth(_, _, _)
ColumnWidth(name, rows, width) ==
    IF rows = <<>> THEN width
    ELSE ColumnWidth(name, Tail(rows), Max(width, StrLen(Head(rows), name)))

RECURSIVE Repeat(_, _)
Repeat(c, n) == IF n <= 0 THEN "" ELSE c \o Repeat(c, n - 1)

\* "{:<width}".format(value)
LeftAlign(value, width) == value \o Repeat(" ", width - Len(value))

\* a setattr of str(value), the list's repr, in place of the joined items
JoinListsRepr(headers, row) ==
    [name \in DOMAIN row |->
        IF (\E i \in 1..Len(headers) : headers[i] = name) /\ IsList(row, name)
        THEN PyStr("[" \o Join(", ", [i \in 1..Len(row[name].items) |->
                                         "'" \o row[name].items[i] \o "'"]) \o "]")
        ELSE row[name]]

\* the row after the second loop's setattr: a list becomes its items joined by ","
JoinLists(headers, row) ==
    [name \in DOMAIN row |->
        IF (\E i \in 1..Len(headers) : headers[i] = name) /\ IsList(row, name)
        THEN PyStr(Join(",", row[name].items))
        ELSE row[name]]

\* [text, rows]: the table, and the rows as the call leaves them
format_table(headers, rows) ==
    LET column_widths == [i \in 1..Len(headers) |->
                             ColumnWidth(headers[i], rows, Len(headers[i]))]
        after == [r \in 1..Len(rows) |-> JoinLists(headers, rows[r])]
        \* getattr(row, name) of a row whose lists are joined
        cell(row, name) == IF name = "bbu" THEN row[name].value ELSE row[name]
        line(values) == Join(" | ", [i \in 1..Len(headers) |->
                                        LeftAlign(values[i], column_widths[i])])
        separator == Join("-+-", [i \in 1..Len(headers) |-> Repeat("-", column_widths[i])])
        lines == << line(headers), separator >>
                 \o [r \in 1..Len(rows) |->
                        line([i \in 1..Len(headers) |-> cell(after[r], headers[i])])]
    IN  [text |-> Join("\n", lines), rows |-> after]

(***************************************************************************)
(* main                                                                    *)
(***************************************************************************)
\* a maximum that leaves the physical disks out
MaxOfFirstTwo(ctrl, virtual, pdisk) == Max(ctrl, virtual)

\* exit_code = max(ctrl_ret, virtual_ret, pdisk_ret)
main_exit_code(ctrl, virtual, pdisk) == Max(Max(ctrl, virtual), pdisk)

\* dict(Counter(x.status for x in info)): the statuses in the order of their
\* first occurrence, each with its count
RECURSIVE Counter(_, _)
Counter(info, counts) ==
    IF info = <<>> THEN counts
    ELSE LET status == Head(info).status IN
         IF \E i \in 1..Len(counts) : counts[i][1] = status
         THEN Counter(Tail(info),
                      [i \in 1..Len(counts) |->
                          IF counts[i][1] = status THEN << status, counts[i][2] + 1 >>
                          ELSE counts[i]])
         ELSE Counter(Tail(info), Append(counts, << status, 1 >>))

\* str of such a dict
DictStr(counts) ==
    "{" \o Join(", ", [i \in 1..Len(counts) |->
                          "'" \o counts[i][1] \o "': " \o ToString(counts[i][2])]) \o "}"

NagiosLine(code, virtual, pdisk) ==
    "RAID " \o ExitCodeName(code) \o ": Arrays " \o DictStr(Counter(virtual, <<>>))
    \o " Disks " \o DictStr(Counter(pdisk, <<>>))

ControllerHeaders == <<"cid", "status", "model", "ram", "temp", "bbu", "firmware">>
VdiskHeaders == <<"vid", "status", "type", "size", "strip", "ospath">>
PdiskHeaders == <<"did", "status", "type", "model", "size", "speed", "temp">>

NoReply == [returncode |-> -1, text |-> NotJson]
NoRecords == [ctrl |-> <<>>, virtual |-> <<>>, pdisk |-> <<>>]

Init ==
    /\ pc = "start"
    \* parse_arguments: --nagios, --perccli-path
    /\ args \in [nagios : BOOLEAN, perccli_path : {"", "/usr/sbin/perccli64"}]
    /\ manager = NoManager
    /\ calls = <<>>
    /\ stdout = NoReply
    /\ ctrl_ret = -1 /\ ctrl_info = <<>>
    /\ virtual_ret = -1 /\ virtual_info = <<>>
    /\ pdisk_ret = -1 /\ pdisk_info = <<>>
    /\ exit_code = -1
    /\ output = <<>>
    /\ exc = "none"
    /\ returned = NoRecords

\* manager = manager_factory(args.perccli_path)
ManagerFactory ==
    /\ pc = "start"
    /\ \E installed \in SUBSET {DefaultPaths[1], DefaultPaths[2]}, reply \in VersionReplies :
          LET made == manager_factory(args.perccli_path, installed, reply) IN
          /\ manager' = made.manager
          /\ calls' = IF made.invoked
                      THEN << [cmd |-> << made.perccli_path, "v" >>,
                               returncode |-> reply.returncode, json |-> FALSE,
                               marker |-> NoMarker] >>
                      ELSE calls
          /\ stdout' = IF made.invoked THEN reply ELSE stdout
          /\ exc' = made.exc
          /\ pc' = IF made.exc = "none" THEN "ctrl" ELSE "crashed"
    /\ UNCHANGED << args, ctrl_ret, ctrl_info, virtual_ret, virtual_info, pdisk_ret,
                    pdisk_info, exit_code, output, returned >>

Command(query) == << manager.perccli_path, query, "show", "all", "j" >>

\* ctrl_ret, ctrl_info = manager.check_controllers()
CheckControllers(replies7, replies8, next) ==
    /\ pc = "ctrl"
    /\ \E reply \in IF manager.version = 7 THEN replies7 ELSE replies8 :
          LET got == IF manager.version = 7 THEN Perccli7Manager_check_controllers(reply)
                     ELSE Perccli8Manager_check_controllers(reply)
          IN  /\ calls' = Append(calls, Logged(Command("/call"), reply))
              /\ stdout' = reply
              /\ exc' = got.exc
              /\ IF got.exc = "none"
                 THEN /\ pc' = next
                      /\ ctrl_ret' = got.ret
                      /\ ctrl_info' = got.info
                      /\ returned' = [returned EXCEPT !.ctrl = got.info]
                 ELSE /\ pc' = "crashed"
                      /\ UNCHANGED << ctrl_ret, ctrl_info, returned >>
    /\ UNCHANGED << args, manager, virtual_ret, virtual_info, pdisk_ret, pdisk_info,
                    exit_code, output >>

\* virtual_ret, virtual_info = manager.check_virtual_disks()
CheckVirtualDisks(replies7, replies8, next) ==
    /\ pc = "vd"
    /\ \E reply \in IF manager.version = 7 THEN replies7 ELSE replies8 :
          LET got == IF manager.version = 7 THEN Perccli7Manager_check_virtual_disks(reply)
                     ELSE Perccli8Manager_check_virtual_disks(reply)
          IN  /\ calls' = Append(calls, Logged(Command("/call/vall"), reply))
              /\ stdout' = reply
              /\ exc' = got.exc
              /\ IF got.exc = "none"
                 THEN /\ pc' = next
                      /\ virtual_ret' = got.ret
                      /\ virtual_info' = got.info
                      /\ returned' = [returned EXCEPT !.virtual = got.info]
                 ELSE /\ pc' = "crashed"
                      /\ UNCHANGED << virtual_ret, virtual_info, returned >>
    /\ UNCHANGED << args, manager, ctrl_ret, ctrl_info, pdisk_ret, pdisk_info,
                    exit_code, output >>

\* the replies the second query can get; it is run only when the first
\* document's marker is not "Success"
SecondReplies(first, replies) ==
    IF Perccli7Manager__phys_disks_data(first, first).queries = 2 THEN replies ELSE {first}

\* pdisk_ret, pdisk_info = manager.check_phys_disks()
CheckPhysDisks(first7, second7, replies8, next) ==
    /\ pc = "pd"
    /\ \/ /\ manager.version = 7
          /\ \E first \in first7 : \E second \in SecondReplies(first, second7) :
                LET got == Perccli7Manager_check_phys_disks(first, second) IN
                /\ calls' = calls \o << Logged(Command("/call/eall/sall"), first) >>
                                  \o (IF got.queries = 2
                                      THEN << Logged(Command("/call/sall"), second) >>
                                      ELSE <<>>)
                /\ stdout' = IF got.queries = 2 THEN second ELSE first
                /\ exc' = got.exc
                /\ IF got.exc = "none"
                   THEN /\ pc' = next
                        /\ pdisk_ret' = got.ret
                        /\ pdisk_info' = got.info
                        /\ returned' = [returned EXCEPT !.pdisk = got.info]
                   ELSE /\ pc' = "crashed"
                        /\ UNCHANGED << pdisk_ret, pdisk_info, returned >>
       \/ /\ manager.version = 8
          /\ \E reply \in replies8 :
                LET got == Perccli8Manager_check_phys_disks(reply) IN
                /\ calls' = Append(calls, Logged(Command("/call/eall/sall"), reply))
                /\ stdout' = reply
                /\ exc' = got.exc
                /\ IF got.exc = "none"
                   THEN /\ pc' = next
                        /\ pdisk_ret' = got.ret
                        /\ pdisk_info' = got.info
                        /\ returned' = [returned EXCEPT !.pdisk = got.info]
                   ELSE /\ pc' = "crashed"
                        /\ UNCHANGED << pdisk_ret, pdisk_info, returned >>
    /\ UNCHANGED << args, manager, ctrl_ret, ctrl_info, virtual_ret, virtual_info,
                    exit_code, output >>

\* if args.nagios: print the summary line, return exit_code
ReportNagios ==
    /\ pc = "report"
    /\ args.nagios
    /\ exit_code' = main_exit_code(ctrl_ret, virtual_ret, pdisk_ret)
    /\ output' = << NagiosLine(exit_code', virtual_info, pdisk_info) >>
    /\ pc' = "done"
    /\ UNCHANGED << args, manager, calls, stdout, ctrl_ret, ctrl_info, virtual_ret,
                    virtual_info, pdisk_ret, pdisk_info, exc, returned >>

\* otherwise: print the three tables, return exit_code
ReportTable ==
    /\ pc = "report"
    /\ ~args.nagios
    /\ exit_code' = main_exit_code(ctrl_ret, virtual_ret, pdisk_ret)
    /\ LET ctrl == format_table(ControllerHeaders, ctrl_info)
           virtual == format_table(VdiskHeaders, virtual_info)
           pdisk == format_table(PdiskHeaders, pdisk_info)
       IN  /\ output' = << "-- controller info", ctrl.text,
                           "\n-- virtual disk info", virtual.text,
                           "\n-- disk info", pdisk.text >>
           /\ ctrl_info' = ctrl.rows
           /\ virtual_info' = virtual.rows
           /\ pdisk_info' = pdisk.rows
    /\ pc' = "done"
    /\ UNCHANGED << args, manager, calls, stdout, ctrl_ret, virtual_ret, pdisk_ret,
                    exc, returned >>


(***************************************************************************)
(* A whole run: main from parse_arguments to its return.                   *)
(***************************************************************************)
RunPdStatuses == {"Onln", "Online", "Failed"}

\* the machine of a whole run has one controller, c0
RunCtl == Cardinality({0})

\* the replies of a whole run, per version; documents with a key missing are
\* those without "Controllers" and, for version 7's marker, those without it
RunControllerReplies7 ==
    Replies(WellFormedControllerDocs(7, RunCtl, RunItems) \cup MalformedControllerDocs(7, 0),
            WellFormedControllerDocs(7, 1, 0))
RunControllerReplies8 ==
    Replies(WellFormedControllerDocs(8, RunCtl, RunItems) \cup MalformedControllerDocs(8, 0),
            WellFormedControllerDocs(8, 1, 0))
RunVirtualReplies7 ==
    Replies(WellFormedVirtualDocs(7, RunCtl, RunItems) \cup MalformedVirtualDocs(7, 0, 0),
            WellFormedVirtualDocs(7, 1, 0))
RunVirtualReplies8 ==
    Replies(WellFormedVirtualDocs(8, RunCtl, RunItems) \cup MalformedVirtualDocs(8, 0, 0),
            WellFormedVirtualDocs(8, 1, 0))
RunPhys7RepliesOf(encl) ==
    Replies(WellFormedPhys7Docs(RunPdStatuses, encl, RunCtl, RunItems)
                \cup FailurePhys7Docs({"Onln"}, encl)
                \cup MalformedPhys7Docs(encl, 0, 0),
            WellFormedPhys7Docs(RunPdStatuses, encl, 1, 0))
RunPhys7First == RunPhys7RepliesOf(TRUE)
RunPhys7Second == RunPhys7RepliesOf(FALSE)

RunPhys8Replies ==
    Replies(WellFormedPhys8Docs(RunPdStatuses, RunCtl, RunItems)
                \cup MalformedPhys8Docs(0, 0),
            WellFormedPhys8Docs(RunPdStatuses, 1, 0))

Next ==
    \/ ManagerFactory
    \/ CheckControllers(RunControllerReplies7, RunControllerReplies8, "vd")
    \/ CheckVirtualDisks(RunVirtualReplies7, RunVirtualReplies8, "pd")
    \/ CheckPhysDisks(RunPhys7First, RunPhys7Second, RunPhys8Replies, "report")
    \/ ReportNagios
    \/ ReportTable

Spec == Init /\ [][Next]_vars

(***************************************************************************)
(* One method of a manager called on its own, on the larger documents.     *)
(***************************************************************************)
UnitControllerReplies7 == ControllerReplies(7, MaxCtl, MaxItems)
UnitControllerReplies8 == ControllerReplies(8, MaxCtl, MaxItems)

UnitVirtualReplies7 == VirtualReplies(7, MaxCtl, MaxItems)
UnitVirtualReplies8 == VirtualReplies(8, MaxCtl, MaxItems)

UnitPhys7First == Phys7Replies(PdStatuses, TRUE, MaxCtl, MaxItems)
UnitPhys7Second == Phys7Replies(PdStatuses, FALSE, MaxCtl, MaxItems)
UnitPhys8Replies == Phys8Replies(PdStatuses, MaxCtl, MaxItems)

InitUnit ==
    /\ pc \in {"ctrl", "vd", "pd"}
    /\ args = [nagios |-> FALSE, perccli_path |-> ""]
    \* Perccli7Manager(perccli_path), Perccli8Manager(perccli_path)
    /\ manager \in {[version |-> 7, perccli_path |-> DefaultPaths[1]],
                    [version |-> 8, perccli_path |-> DefaultPaths[2]]}
    /\ calls = <<>>
    /\ stdout = NoReply
    /\ ctrl_ret = -1 /\ ctrl_info = <<>>
    /\ virtual_ret = -1 /\ virtual_info = <<>>
    /\ pdisk_ret = -1 /\ pdisk_info = <<>>
    /\ exit_code = -1
    /\ output = <<>>
    /\ exc = "none"
    /\ returned = NoRecords

NextUnit ==
    \/ CheckControllers(UnitControllerReplies7, UnitControllerReplies8, "returned")
    \/ CheckVirtualDisks(UnitVirtualReplies7, UnitVirtualReplies8, "returned")
    \/ CheckPhysDisks(UnitPhys7First, UnitPhys7Second, UnitPhys8Replies, "returned")

SpecUnit == InitUnit /\ [][NextUnit]_vars

(***************************************************************************)
(* main from "exit_code = max(...)" on, over a manager whose three methods *)
(* have returned any severity of ExitCode, each with a list of records.    *)
(***************************************************************************)
StubReply(doc) == [returncode |-> 0, text |-> Json(doc)]

StubControllerInfos ==
    {Perccli8Manager_check_controllers(StubReply(doc)).info :
        doc \in WellFormedControllerDocs(8, 1, StubRecords)}
StubVdiskInfos ==
    {Perccli8Manager_check_virtual_disks(StubReply(doc)).info :
        doc \in WellFormedVirtualDocs(8, 1, StubRecords)}
StubPdiskInfos ==
    {Perccli8Manager_check_phys_disks(StubReply(doc)).info :
        doc \in WellFormedPhys8Docs({"Online", "Failed"}, 1, StubRecords)}

InitMain ==
    /\ pc = "report"
    /\ args \in [nagios : BOOLEAN, perccli_path : {""}]
    /\ manager = [version |-> 8, perccli_path |-> DefaultPaths[2]]
    /\ calls = <<>>
    /\ stdout = NoReply
    /\ ctrl_ret \in ExitCode /\ ctrl_info \in StubControllerInfos
    /\ virtual_ret \in ExitCode /\ virtual_info \in StubVdiskInfos
    /\ pdisk_ret \in ExitCode /\ pdisk_info \in StubPdiskInfos
    /\ exit_code = -1
    /\ output = <<>>
    /\ exc = "none"
    /\ returned = [ctrl |-> ctrl_info, virtual |-> virtual_info, pdisk |-> pdisk_info]

NextMain ==
    \/ ReportNagios
    \/ ReportTable

SpecMain == InitMain /\ [][NextMain]_vars

(***************************************************************************)
(* What the properties below read off a state.                             *)
(***************************************************************************)
\* the logged invocations of a query, in order
CallsOf(queries) == SelectSeq(calls, LAMBDA e : e.cmd[2] \in queries)
CtrlCalls == CallsOf({"/call"})
VdCalls == CallsOf({"/call/vall"})
PdCalls == CallsOf({"/call/eall/sall", "/call/sall"})

\* the query of the last invocation
LastQuery == IF calls = <<>> THEN "" ELSE calls[Len(calls)].cmd[2]

\* an invocation that failed outright
QueryFailed(e) == e.returncode # 0 \/ ~e.json
SomeFailed(log) == \E i \in 1..Len(log) : QueryFailed(log[i])

\* the last reply is a JSON document of docs, printed with return code 0
Answered(docs) ==
    /\ stdout.returncode = 0
    /\ stdout.text.json
    /\ stdout.text.doc \in docs

Finished == pc \in {"returned", "crashed"}

UnitWellFormedControllers7 == WellFormedControllerDocs(7, MaxCtl, MaxItems)
UnitWellFormedControllers8 == WellFormedControllerDocs(8, MaxCtl, MaxItems)
UnitWellFormedVirtual7 == WellFormedVirtualDocs(7, MaxCtl, MaxItems)
UnitWellFormedVirtual8 == WellFormedVirtualDocs(8, MaxCtl, MaxItems)
UnitWellFormedPhys7 ==
    WellFormedPhys7Docs(PdStatuses, TRUE, MaxCtl, MaxItems)
        \cup WellFormedPhys7Docs(PdStatuses, FALSE, MaxCtl, MaxItems)
UnitWellFormedPhys8 == WellFormedPhys8Docs(PdStatuses, MaxCtl, MaxItems)

UnitMalformedControllers7 == MalformedControllerDocs(7, MaxCtl)
UnitMalformedControllers8 == MalformedControllerDocs(8, MaxCtl)
UnitMalformedVirtual7 == MalformedVirtualDocs(7, MaxCtl, MaxItems)
UnitMalformedVirtual8 == MalformedVirtualDocs(8, MaxCtl, MaxItems)
UnitMalformedPhys7 ==
    MalformedPhys7Docs(TRUE, MaxCtl, MaxItems) \cup MalformedPhys7Docs(FALSE, MaxCtl, MaxItems)
UnitMalformedPhys8 == MalformedPhys8Docs(MaxCtl, MaxItems)

\* the last reply is a well-formed document of the query that was made
WellFormedAnswer ==
    IF LastQuery = "/call"
    THEN Answered(IF manager.version = 7 THEN UnitWellFormedControllers7
                  ELSE UnitWellFormedControllers8)
    ELSE IF LastQuery = "/call/vall"
    THEN Answered(IF manager.version = 7 THEN UnitWellFormedVirtual7
                  ELSE UnitWellFormedVirtual8)
    ELSE Answered(IF manager.version = 7 THEN UnitWellFormedPhys7 ELSE UnitWellFormedPhys8)

\* the last reply is a JSON document of the query that was made, a key missing
MalformedAnswer ==
    IF LastQuery = "/call"
    THEN Answered(IF manager.version = 7 THEN UnitMalformedControllers7
                  ELSE UnitMalformedControllers8)
    ELSE IF LastQuery = "/call/vall"
    THEN Answered(IF manager.version = 7 THEN UnitMalformedVirtual7
                  ELSE UnitMalformedVirtual8)
    ELSE Answered(IF manager.version = 7 THEN UnitMalformedPhys7 ELSE UnitMalformedPhys8)

\* what the method that was called returned
MethodRet ==
    IF LastQuery = "/call" THEN ctrl_ret
    ELSE IF LastQuery = "/call/vall" THEN virtual_ret
    ELSE pdisk_ret
MethodInfo ==
    IF LastQuery = "/call" THEN ctrl_info
    ELSE IF LastQuery = "/call/vall" THEN virtual_info
    ELSE pdisk_info

\* the known-good statuses of physical disks
GoodPdStatuses == IF manager.version = 7 THEN {"Onln", "GHS"} ELSE {"Online", "Good"}

\* a controller block of a document reports a controller or a backup unit
\* that is not "Optimal"
UnhealthyBlock(block) ==
    LET resp == block["Response Data"]
        units == IF manager.version = 7 THEN resp["BBU_Info"] ELSE resp["Energy Pack Info"]
        state == IF manager.version = 7 THEN "State" ELSE "Status"
    IN  \/ resp["Status"]["Controller Status"] # "Optimal"
        \/ \E i \in 1..Len(units) : units[i][state] # "Optimal"

\* a controller record is not healthy
UnhealthyRecord(cinfo) ==
    \/ cinfo.status # "Optimal"
    \/ \E i \in 1..Len(cinfo.bbu.items) : cinfo.bbu.items[i] # "Optimal"

\* the number a run of decimal digits denotes
TokenValue(digits) ==
    LET sum[i \in 0..Len(digits)] ==
            IF i = 0 THEN 0 ELSE 10 * sum[i - 1] + DigitValue(digits[i])
    IN  sum[Len(digits)]

(***************************************************************************)
(* Properties.                                                             *)
(***************************************************************************)
\* C1: whatever severities of OK < WARNING < CRITICAL < UNKNOWN the three
\* methods returned, the exit code main returns is the greatest of the three:
\* it is one of them and none of them exceeds it; in tabular and in nagios mode.
C1_ExitCodeIsMaximum ==
    pc = "done" =>
        /\ exit_code \in {ctrl_ret, virtual_ret, pdisk_ret}
        /\ exit_code >= ctrl_ret
        /\ exit_code >= virtual_ret
        /\ exit_code >= pdisk_ret

\* a tabular run that ends with UNKNOWN, which only the physical disks returned
C1_Witness ==
    /\ pc = "done"
    /\ ~args.nagios
    /\ ctrl_ret = WARNING
    /\ virtual_ret = OK
    /\ pdisk_ret = UNKNOWN
    /\ exit_code = UNKNOWN

\* C6: on a well-formed controllers document check_controllers returns
\* CRITICAL when some block has a controller status or a backup unit status
\* other than "Optimal", wherever the block stands, and OK when none has; it
\* returns one record per block.
C6_ControllersSeverity ==
    (Finished /\ LastQuery = "/call" /\ WellFormedAnswer) =>
        LET blocks == stdout.text.doc["Controllers"] IN
        /\ pc = "returned"
        /\ ctrl_ret = IF \E i \in 1..Len(blocks) : UnhealthyBlock(blocks[i])
                      THEN CRITICAL ELSE OK
        /\ Len(ctrl_info) = Len(blocks)

\* a healthy controller without backup units after a degraded one: CRITICAL stays
C6_Witness ==
    /\ pc = "returned"
    /\ LastQuery = "/call"
    /\ WellFormedAnswer
    /\ Len(ctrl_info) = 2
    /\ ctrl_info[1].status = "Degraded"
    /\ ctrl_info[2].status = "Optimal"
    /\ ctrl_info[2].bbu.items = <<>>
    /\ ctrl_ret = CRITICAL

\* C7: on a well-formed document a disk method returns CRITICAL when some
\* record it extracted has a status outside the known-good set, and OK when
\* none has: {"Optl"} for virtual disks, {"Onln", "GHS"} for version 7's
\* physical disks, {"Online", "Good"} for version 8's.
C7_DisksSeverity ==
    (Finished /\ LastQuery # "/call" /\ WellFormedAnswer) =>
        LET good == IF LastQuery = "/call/vall" THEN {"Optl"} ELSE GoodPdStatuses IN
        /\ pc = "returned"
        /\ MethodRet = IF \E i \in 1..Len(MethodInfo) : MethodInfo[i].status \notin good
                       THEN CRITICAL ELSE OK

\* version 7 finds an "Onln" disk and then an "Online" one: CRITICAL
C7_Witness ==
    /\ pc = "returned"
    /\ manager.version = 7
    /\ LastQuery = "/call/eall/sall"
    /\ WellFormedAnswer
    /\ Len(pdisk_info) = 2
    /\ pdisk_info[1].status = "Onln"
    /\ pdisk_info[2].status = "Online"
    /\ pdisk_ret = CRITICAL

\* C8: version 7's check_phys_disks queries "/call/eall/sall" first; it goes on
\* to "/call/sall" exactly when the first reply is a document that carries a
\* marker other than "Success"; when the second reply carries such a marker
\* too the result is (CRITICAL, []).  Every other method makes one query, and
\* no query is made again after it failed.
C8_SecondVariant ==
    Finished =>
        IF manager.version = 7 /\ LastQuery \in {"/call/eall/sall", "/call/sall"}
        THEN /\ calls[1].cmd[2] = "/call/eall/sall"
             /\ Len(calls) \in {1, 2}
             /\ Len(calls) = 2 <=> /\ ~QueryFailed(calls[1])
                                   /\ calls[1].marker \notin {"Success", NoMarker}
             /\ Len(calls) = 2 =>
                   /\ calls[2].cmd[2] = "/call/sall"
                   /\ (~QueryFailed(calls[2])
                          /\ calls[2].marker \notin {"Success", NoMarker})
                      => (pc = "returned" /\ pdisk_ret = CRITICAL /\ pdisk_info = <<>>)
        ELSE Len(calls) = 1

\* the first variant reported a failure, the second one a healthy disk
C8_Witness ==
    /\ pc = "returned"
    /\ manager.version = 7
    /\ Len(calls) = 2
    /\ calls[1].marker = "Failure"
    /\ calls[2].cmd[2] = "/call/sall"
    /\ calls[2].marker = "Success"
    /\ pdisk_ret = OK
    /\ Len(pdisk_info) = 1

\* C3 (as the specification states it): a method whose query is answered by a
\* JSON document with a required key missing returns (CRITICAL, []).
C3_MissingKeyIsCritical ==
    (Finished /\ MalformedAnswer) =>
        /\ pc = "returned"
        /\ MethodRet = CRITICAL
        /\ MethodInfo = <<>>

\* C2: a method whose query printed text that is not JSON, or ended with a
\* non-zero return code, has returned (CRITICAL, []), for either version and
\* each category; a run whose category queries all printed text that is not
\* JSON returns 2.
C2_QueryFailureIsCritical ==
    /\ SomeFailed(CtrlCalls) => (ctrl_ret = CRITICAL /\ returned.ctrl = <<>>)
    /\ SomeFailed(VdCalls) => (virtual_ret = CRITICAL /\ returned.virtual = <<>>)
    /\ SomeFailed(PdCalls) => (pdisk_ret = CRITICAL /\ returned.pdisk = <<>>)
    /\ (SomeFailed(CtrlCalls) /\ SomeFailed(VdCalls) /\ SomeFailed(PdCalls))
           => pc \in {"report", "done"}
    /\ (pc = "done" /\ \A i \in 2..Len(calls) : ~calls[i].json) => exit_code = 2

\* version 7's run in which the three queries all printed text that is not JSON
C2_Witness ==
    /\ pc = "done"
    /\ manager.version = 7
    /\ Len(calls) = 4
    /\ \A i \in 2..4 : ~calls[i].json /\ calls[i].returncode = 0
    /\ ctrl_ret = CRITICAL /\ virtual_ret = CRITICAL /\ pdisk_ret = CRITICAL
    /\ returned = NoRecords
    /\ exit_code = 2

\* C4: after a version query whose output does not match the pattern, or
\* whose major version is neither 7 nor 8, the run has ended with a
\* RuntimeError and without a manager; a run without a manager has made no
\* category query; major version 7 selects version 7's manager and 8 version
\* 8's, and no other manager exists.
C4_VersionSelectsManager ==
    /\ manager.version \in {0, 7, 8}
    /\ (Len(calls) = 1 /\ stdout.returncode = 0) =>
           LET text == stdout.text IN
           IF text.banner /\ text.ver # <<>> /\ TokenValue(text.ver) \in {7, 8}
           THEN /\ pc = "ctrl"
                /\ exc = "none"
                /\ manager.version = TokenValue(text.ver)
           ELSE /\ pc = "crashed"
                /\ exc = "RuntimeError"
                /\ manager = NoManager
    /\ manager = NoManager => (CtrlCalls = <<>> /\ VdCalls = <<>> /\ PdCalls = <<>>)
    /\ Len(calls) >= 2 => manager.version \in {7, 8}

\* the banner of a version 9: the run has ended before any category query
C4_Witness ==
    /\ pc = "crashed"
    /\ exc = "RuntimeError"
    /\ Len(calls) = 1
    /\ stdout.returncode = 0
    /\ stdout.text.banner
    /\ stdout.text.ver = << "9" >>
    /\ manager = NoManager

\* C5 (as the specification states it): a run that has selected a manager ends
\* only after it has queried the controllers, then the virtual disks, then the
\* physical disks.
C5_AllCategoriesQueried ==
    (pc \in {"done", "crashed"} /\ manager.version \in {7, 8}) =>
        /\ Len(calls) \in {4, 5}
        /\ calls[2].cmd[2] = "/call"
        /\ calls[3].cmd[2] = "/call/vall"
        /\ calls[4].cmd[2] = "/call/eall/sall"

\* C9 (as the specification states it): when main returns, every record is as
\* the manager returned it.
C9_NoRecordMutated ==
    pc = "done" =>
        /\ ctrl_info = returned.ctrl
        /\ virtual_info = returned.virtual
        /\ pdisk_info = returned.pdisk

\* C9, amended: when main returns, every VdiskInfo and PdiskInfo record is as
\* the manager returned it, and so is every field of every ControllerInfo
\* record but bbu; in nagios mode bbu is unchanged too, in tabular mode
\* format_table has replaced the list by the str of its items joined by ",".
C9_OnlyBbuIsJoined ==
    pc = "done" =>
        /\ virtual_info = returned.virtual
        /\ pdisk_info = returned.pdisk
        /\ Len(ctrl_info) = Len(returned.ctrl)
        /\ \A i \in 1..Len(ctrl_info) :
              /\ DOMAIN ctrl_info[i] = DOMAIN returned.ctrl[i]
              /\ \A name \in DOMAIN ctrl_info[i] \ {"bbu"} :
                    ctrl_info[i][name] = returned.ctrl[i][name]
              /\ ctrl_info[i].bbu =
                    IF args.nagios THEN returned.ctrl[i].bbu
                    ELSE [type |-> "str", value |-> Join(",", returned.ctrl[i].bbu.items)]

\* a tabular run whose controller had a backup unit: bbu is a str at the end
C9_Witness ==
    /\ pc = "done"
    /\ ~args.nagios
    /\ Len(ctrl_info) = 1
    /\ returned.ctrl[1].bbu = [type |-> "list", items |-> << "Optimal" >>]
    /\ ctrl_info[1].bbu = [type |-> "str", value |-> "Optimal"]

\* C10: a method that has returned has returned OK or CRITICAL, and a run
\* that completes returns 0 or 2; a method whose query failed has returned no
\* record, and a method that has returned CRITICAL with records has returned
\* a record that is not healthy.
C10_OkOrCritical ==
    /\ ctrl_ret \in {-1, OK, CRITICAL}
    /\ virtual_ret \in {-1, OK, CRITICAL}
    /\ pdisk_ret \in {-1, OK, CRITICAL}
    /\ pc = "done" => exit_code \in {0, 2}
    /\ SomeFailed(CtrlCalls) => returned.ctrl = <<>>
    /\ SomeFailed(VdCalls) => returned.virtual = <<>>
    /\ SomeFailed(PdCalls) => returned.pdisk = <<>>
    /\ (ctrl_ret = CRITICAL /\ returned.ctrl # <<>>) =>
           \E i \in 1..Len(returned.ctrl) : UnhealthyRecord(returned.ctrl[i])
    /\ (virtual_ret = CRITICAL /\ returned.virtual # <<>>) =>
           \E i \in 1..Len(returned.virtual) : returned.virtual[i].status # "Optl"
    /\ (pdisk_ret = CRITICAL /\ returned.pdisk # <<>>) =>
           \E i \in 1..Len(returned.pdisk) : returned.pdisk[i].status \notin GoodPdStatuses

\* a completed run of version 8 with a degraded virtual disk and nothing else
\* wrong: the exit code is 2
C10_Witness ==
    /\ pc = "done"
    /\ manager.version = 8
    /\ ctrl_ret = OK
    /\ virtual_ret = CRITICAL
    /\ Len(returned.virtual) = 1
    /\ returned.virtual[1].status # "Optl"
    /\ pdisk_ret = OK
    /\ returned.pdisk # <<>>
    /\ exit_code = 2

====
